---- MODULE Spec2Model ----
(***************************************************************************)
(* Model of datumaro's YOLO oriented-box extractor                        *)
(* (src/datumaro/plugins/yolo_orientedbox_format/extractor.py):           *)
(*   - _parse_annotations: annotation file lines -> Bbox records          *)
(*   - _get and Subset.__iter__: the lazily resolved Subset cache         *)
(*   - YoloOrientedboxExtractor.__iter__: the pass over the url list      *)
(*   - __init__, _load_img_files, _load_categories: construction          *)
(*   - localize_path, name_from_path, _get_fname: names from paths        *)
(*   - xyxyxyxy2xywhr: the box of one line's corners                      *)
(* The ErrorSink (self._ctx.error_policy) is modelled as a recorder: each *)
(* report is counted for the item it names and control returns.           *)
(***************************************************************************)
EXTENDS Integers, Sequences, FiniteSets, TLC

\* ------------------------------------------------------------------ bounds
\* Longest annotation file (raw lines, blank ones included).
MaxLines == 3
\* Number of item ids known to the Subset / base names known to the extractor.
NumIds == 2
\* Longest annotation file an entry of the Subset can have.
MaxGetLines == 2
\* Longest url list handed to the extractor.
MaxUrls == 2
\* Number of passes of the extractor's iteration over its url list.
MaxPasses == 2

None == "None"

\* ------------------------------------------------------------ input alphabet
\* A raw line is the sequence of its whitespace-separated tokens; a blank
\* line (empty after strip()) has no token.
Corners == <<"0.25", "0.25", "0.75", "0.25", "0.75", "0.75", "0.25", "0.75">>
LineSet ==
  { <<>>,                                  \* blank
    <<"0">> \o Corners,                         \* label 0
    <<"1">> \o Corners,                         \* label 1
    <<"0">> \o SubSeq(Corners, 1, 7),           \* 8 tokens: one coordinate missing
    <<"2">> \o Corners,                         \* label id = number of categories
    <<"-1">> \o Corners,                        \* negative label id
    <<"x">> \o Corners,                         \* label is no integer
    <<"0">> \o SubSeq(Corners, 1, 7) \o <<"x">> \* last coordinate is no number
  }

SeqsUpTo(S, n) == UNION { [1..k -> S] : k \in 0..n }

\* An annotation file: open()/read either fails or gives the raw lines.
Unreadable == [readable |-> FALSE, raw |-> <<>>]
FilesUpTo(n) ==
  { Unreadable } \cup { [readable |-> TRUE, raw |-> s] : s \in SeqsUpTo(LineSet, n) }
Files == FilesUpTo(MaxLines)

\* How the pixel size of an image can be had: "meta" - listed in the image
\* info side file; "decodable" / "undecodable" - only by decoding the file.
ImageKinds == {"meta", "decodable", "undecodable"}

\* self._categories[AnnotationType.label]: the ordered label names.
label_categories == <<"a", "b">>

\* ------------------------------------------------------------- the parser
\* int(value) of _parse_field: the tokens of the alphabet int() accepts.
IntTokens == {"-1", "0", "1", "2"}
IntOf(tok) == CASE tok = "-1" -> -1 [] tok = "0" -> 0 [] tok = "1" -> 1
                [] tok = "2" -> 2 [] OTHER -> 0
\* float(value) of _parse_field accepts every token of the alphabet but "x".
FloatTokens == IntTokens \cup {"0.25", "0.75"}

\* label_id in LabelCategories: a valid index.
InCategories(label_id) == 0 <= label_id /\ label_id < Len(label_categories)

\* Image.size: None when the size is not given and the file cannot be decoded.
ImageSize(im) == IF im = "undecodable" THEN None ELSE "hw"

\* The body of the per-line try block: the exception it raises, or "none".
LineError(parts) ==
  IF Len(parts) # 9 THEN "InvalidAnnotationError"
  ELSE IF parts[1] \notin IntTokens THEN "InvalidAnnotationError"
  ELSE IF ~InCategories(IntOf(parts[1])) THEN "UndeclaredLabelError"
  ELSE IF \E k \in 2..9 : parts[k] \notin FloatTokens THEN "InvalidAnnotationError"
  ELSE "none"

\* Mutant of MakeBbox: the lines are counted from 1.
MakeBbox_OneBased(parts, idx) ==
  [label |-> IntOf(parts[1]), id |-> idx + 1, group |-> idx + 1]

\* The Bbox appended for line idx of `lines`.
MakeBbox(parts, idx) == [label |-> IntOf(parts[1]), id |-> idx, group |-> idx]

\* lines: the stripped non-blank lines, in file order.
NonBlank(raw) == SelectSeq(raw, LAMBDA l : l # <<>>)

RECURSIVE LineLoop(_, _, _, _)
\* for idx, line in enumerate(lines): boxes and reports so far, next k (1-based).
LineLoop(lines, k, anns, reps) ==
  IF k > Len(lines) THEN [annotations |-> anns, reports |-> reps]
  ELSE LET e == LineError(lines[k]) IN
       IF e = "none"
       THEN LineLoop(lines, k + 1, Append(anns, MakeBbox(lines[k], k - 1)), reps)
       ELSE LineLoop(lines, k + 1, anns, Append(reps, [idx |-> k - 1, error |-> e]))

\* Mutant of _parse_annotations: image.size is read right after the file, before
\* looking whether any line is left.
_parse_annotations_eager(f, im) ==
  IF ~f.readable
  THEN [exc |-> "OSError", annotations |-> <<>>, reports |-> <<>>, size_read |-> FALSE]
  ELSE IF ImageSize(im) = None
  THEN [exc |-> "DatasetImportError", annotations |-> <<>>, reports |-> <<>>,
        size_read |-> TRUE]
  ELSE LET r == LineLoop(NonBlank(f.raw), 1, <<>>, <<>>) IN
       [exc |-> "none", annotations |-> r.annotations, reports |-> r.reports,
        size_read |-> TRUE]

\* _parse_annotations(anno_path, image): exc is the exception that leaves the
\* function ("none": it returns annotations); reports are the calls of
\* report_annotation_error; size_read tells whether image.size was accessed.
_parse_annotations(f, im) ==
  IF ~f.readable
  THEN [exc |-> "OSError", annotations |-> <<>>, reports |-> <<>>, size_read |-> FALSE]
  ELSE LET lines == NonBlank(f.raw) IN
       IF lines = <<>>
       THEN [exc |-> "none", annotations |-> <<>>, reports |-> <<>>, size_read |-> FALSE]
       ELSE IF ImageSize(im) = None
       THEN [exc |-> "DatasetImportError", annotations |-> <<>>, reports |-> <<>>,
             size_read |-> TRUE]
       ELSE LET r == LineLoop(lines, 1, <<>>, <<>>) IN
            [exc |-> "none", annotations |-> r.annotations, reports |-> r.reports,
             size_read |-> TRUE]

\* The parser's possible results, each with the image kind it was called with:
\* what _get can meet when it opens the annotation file of an entry.
\* reported counts the report_annotation_error calls the parser made.
ParseCase(im, out) ==
  [image |-> im, exc |-> out.exc, annotations |-> out.annotations,
   reported |-> Len(out.reports)]
ParseCases ==
  { ParseCase(im, _parse_annotations(f, im)) :
      f \in FilesUpTo(MaxGetLines), im \in ImageKinds }

NoCase == [image |-> None, exc |-> "notcalled", annotations |-> <<>>, reported |-> 0]

\* ------------------------------------------------------------------ state
Ids == 1..NumIds

\* Values of Subset.items: the filename placeholder (a str) or a DatasetItem;
\* Missing stands for "no such key".
Placeholder == [kind |-> "str", annotations |-> <<>>]
DatasetItem(anns) == [kind |-> "item", annotations |-> anns]
Missing == [kind |-> "missing", annotations |-> <<>>]
NoneValue == [kind |-> "None", annotations |-> <<>>]

VARIABLES
  anno_file, image, parsed,   \* one parser call: its inputs and its result
  items,                      \* Subset.items: id -> Placeholder | DatasetItem | Missing
  keys,                       \* insertion order of the keys of Subset.items
  od_state,                   \* the OrderedDict's change counter (key added/removed)
  it,                         \* the running Subset.__iter__ generator
  yielded,                    \* ids yielded by the current pass, in order
  ret,                        \* the last _get call: arguments, outcome, return value
  parse_calls,                \* id -> number of _parse_annotations calls
  item_errors,                \* id -> number of report_item_error calls
  annotation_errors,          \* id -> number of report_annotation_error calls
  urls,                       \* self._urls: the url list of the extractor
  img_files,                  \* self._img_files: base name -> image (or "absent")
  disk,                       \* url -> the annotation file found there
  epos,                       \* extractor __iter__: position in urls (0: no pass runs)
  epass,                      \* extractor __iter__: passes started
  eyield,                     \* items yielded by the current pass, in order
  elast,                      \* what the last round of the extractor's loop did
  visits,                     \* base name -> rounds of the loop that handled it
  path, named,                \* one path and the names derived from it
  cargs,                      \* __init__: its arguments and what is on disk
  cpc,                        \* __init__: the statement reached ("done", "raised")
  cexc,                       \* __init__: the exception that left it ("none")
  index,                      \* _load_img_files: base name -> the file it maps to
  categories,                 \* self._categories[AnnotationType.label]
  gsize, gline, gbox          \* one box: image.size, the line's corners, the Bbox

parser_vars == <<anno_file, image, parsed>>
subset_vars == <<items, keys, od_state, it, yielded, ret,
                 parse_calls, item_errors, annotation_errors>>
extractor_vars == <<urls, img_files, disk, epos, epass, eyield, elast, visits>>
names_vars == <<path, named>>
ctor_vars == <<cargs, cpc, cexc, index, categories>>
geom_vars == <<gsize, gline, gbox>>
aux_vars == <<names_vars, ctor_vars, geom_vars>>
vars == <<parser_vars, subset_vars, extractor_vars, aux_vars>>

NotCalled == [exc |-> "notcalled", annotations |-> <<>>, reports |-> <<>>,
              size_read |-> FALSE]
NoIter == [status |-> "idle", current |-> 0, state |-> 0, size |-> 0]
NoRet == [id |-> 0, before |-> Missing, exc |-> "none", caught |-> "none",
          value |-> NoneValue, case |-> NoCase]

NoRound == [url |-> <<>>, fname |-> 0, image |-> None, file |-> Unreadable,
            exc |-> "none", errors_before |-> 0, yielded_before |-> 0]

\* The Subset is empty and no call was made.
SubsetIdle ==
  /\ items = [i \in Ids |-> Missing] /\ keys = <<>> /\ od_state = 0
  /\ it = NoIter /\ yielded = <<>> /\ ret = NoRet

NoReports ==
  /\ parse_calls = [i \in Ids |-> 0]
  /\ item_errors = [i \in Ids |-> 0]
  /\ annotation_errors = [i \in Ids |-> 0]

\* The extractor has no url and runs no pass.
ExtractorIdle ==
  /\ urls = <<>> /\ img_files = [i \in Ids |-> "absent"] /\ disk = <<>>
  /\ epos = 0 /\ epass = 0 /\ eyield = <<>> /\ elast = NoRound
  /\ visits = [i \in Ids |-> 0]

ParserIdle ==
  /\ anno_file = Unreadable /\ image = "meta" /\ parsed = NotCalled

\* No path is being named.
NoPath == [root |-> "rel", dir |-> <<>>, stem |-> 0, ext |-> ""]
NoName == [abs |-> FALSE, dir |-> <<>>, stem |-> 0]
NotNamed == [name |-> NoName, id |-> 0]

\* The extractor was constructed: __init__ is not running.
NoFile == [subset |-> "", dir |-> "", stem |-> 0]
NoArgs == [isdir |-> TRUE, urls |-> [given |-> TRUE, list |-> <<>>],
           info |-> "absent", subset |-> "train", scanned |-> <<>>,
           names |-> [kind |-> "list", names |-> <<>>]]
Constructed ==
  /\ cargs = NoArgs /\ cpc = "done" /\ cexc = "none"
  /\ index = [i \in Ids |-> NoFile]
  /\ categories = [set |-> TRUE, names |-> label_categories]

\* No box is being computed.
NoBox == [x2 |-> 0, y2 |-> 0, w |-> 0, h |-> 0, angle |-> 0]
GeomIdle == gsize = [h |-> 0, w |-> 0] /\ gline = <<>> /\ gbox = NoBox

AuxIdle == path = NoPath /\ named = NotNamed /\ Constructed /\ GeomIdle

\* --------------------------------------------------- the Subset and _get
\* Orders in which a set of ids can have been inserted into Subset.items.
InsertionOrders ==
  { s \in SeqsUpTo(Ids, NumIds) : \A i, j \in 1..Len(s) : i # j => s[i] # s[j] }

\* The position of key k in the sequence ks (0: not a key).
IndexOf(ks, k) == IF \E i \in 1..Len(ks) : ks[i] = k
                  THEN CHOOSE i \in 1..Len(ks) : ks[i] = k ELSE 0

\* subset.items.pop(item_id): the remaining keys keep their order.
Pop(ks, k) == SelectSeq(ks, LAMBDA x : x # k)

\* `annotations, angle = self._parse_annotations(...)`: unpacking the returned
\* list into two names succeeds only for a list of exactly two elements.
UnpackError(anns) == IF Len(anns) = 2 THEN "none" ELSE "ValueError"

\* Mutant of Evict: the failure is handled as lines 181-182 handle an
\* annotation error - reported, the entry kept, the filename returned.
Evict_KeepAndReturn(item_id, c, e) ==
  /\ item_errors' = [item_errors EXCEPT ![item_id] = @ + 1]
  /\ ret' = [id |-> item_id, before |-> items[item_id], exc |-> "none", caught |-> e,
             value |-> items[item_id], case |-> c]
  /\ UNCHANGED <<items, keys, od_state>>

\* Mutant of Evict: the error is reported but the entry is not popped.
Evict_NoPop(item_id, c, e) ==
  /\ item_errors' = [item_errors EXCEPT ![item_id] = @ + 1]
  /\ ret' = [id |-> item_id, before |-> items[item_id], exc |-> "none", caught |-> e,
             value |-> NoneValue, case |-> c]
  /\ UNCHANGED <<items, keys, od_state>>

\* except Exception: report_item_error, subset.items.pop(item_id), item = None.
Evict(item_id, c, e) ==
  /\ item_errors' = [item_errors EXCEPT ![item_id] = @ + 1]
  /\ items' = [items EXCEPT ![item_id] = Missing]
  /\ keys' = Pop(keys, item_id)
  /\ od_state' = od_state + 1
  /\ ret' = [id |-> item_id, before |-> items[item_id], exc |-> "none", caught |-> e,
             value |-> NoneValue, case |-> c]

\* Mutant of Store: the item is returned but not written back to the cache.
Store_NoCache(item_id, c, item) ==
  /\ ret' = [id |-> item_id, before |-> items[item_id], exc |-> "none",
             caught |-> "none", value |-> item, case |-> c]
  /\ UNCHANGED <<items, keys, od_state, item_errors>>

\* subset.items[item_id] = item; return item.
Store(item_id, c, item) ==
  /\ items' = [items EXCEPT ![item_id] = item]
  /\ ret' = [id |-> item_id, before |-> items[item_id], exc |-> "none",
             caught |-> "none", value |-> item, case |-> c]
  /\ UNCHANGED <<keys, od_state, item_errors>>

\* _get(item_id, subset_name). c is what opening and parsing the annotation
\* file gives; accept tells whether DatasetItem(annotations=<one Bbox>) is
\* constructed or raises TypeError (the constructor is not part of this file,
\* so both outcomes are kept). When it is constructed, the item holds the
\* first Bbox only: the second one is bound to `angle` and dropped.
\* The handler `except (UndeclaredLabelError, InvalidAnnotationError)` has no
\* branch here: the parser catches every per-line exception itself and the
\* recording ErrorSink returns, so neither exception reaches _get.
_get(item_id, c, accept) ==
  IF items[item_id] = Missing
  THEN \* subset.items[item_id] raises KeyError, outside the try block
       /\ ret' = [id |-> item_id, before |-> Missing, exc |-> "KeyError",
                  caught |-> "none", value |-> NoneValue, case |-> NoCase]
       /\ UNCHANGED <<items, keys, od_state, parse_calls, item_errors,
                      annotation_errors>>
  ELSE IF items[item_id].kind = "str"
  THEN /\ parse_calls' = [parse_calls EXCEPT ![item_id] = @ + 1]
       /\ annotation_errors' =
            [annotation_errors EXCEPT ![item_id] = @ + c.reported]
       /\ IF c.exc # "none" THEN Evict(item_id, c, c.exc)
          ELSE IF UnpackError(c.annotations) # "none"
          THEN Evict(item_id, c, UnpackError(c.annotations))
          ELSE IF ~accept THEN Evict(item_id, c, "TypeError")
          ELSE Store(item_id, c, DatasetItem(<<c.annotations[1]>>))
  ELSE \* already a DatasetItem: returned as cached
       /\ ret' = [id |-> item_id, before |-> items[item_id], exc |-> "none",
                  caught |-> "none", value |-> items[item_id], case |-> NoCase]
       /\ UNCHANGED <<items, keys, od_state, parse_calls, item_errors,
                      annotation_errors>>

\* The inputs a _get call can meet: the parse cases only when it parses.
CasesFor(item_id) == IF items[item_id].kind = "str" THEN ParseCases ELSE {NoCase}
AcceptsFor(item_id, c) ==
  IF items[item_id].kind = "str" /\ c.exc = "none" /\ Len(c.annotations) = 2
  THEN BOOLEAN ELSE {FALSE}

\* ------------------------------------ one annotation file, parsed and fetched
\* One annotation file and one image are on disk. The parser is called on
\* them directly (as the extractor's own loop does), and a Subset holding the
\* single unresolved entry 1 for them is fetched with _get.
InitParse ==
  /\ anno_file \in Files
  /\ image \in ImageKinds
  /\ parsed = NotCalled
  /\ keys = <<1>>
  /\ items = [i \in Ids |-> IF i = 1 THEN Placeholder ELSE Missing]
  /\ od_state = 0 /\ it = NoIter /\ yielded = <<>> /\ ret = NoRet
  /\ NoReports /\ ExtractorIdle /\ AuxIdle

Parse ==
  /\ parsed = NotCalled
  /\ parsed' = _parse_annotations(anno_file, image)
  /\ UNCHANGED <<aux_vars, anno_file, image, subset_vars, extractor_vars>>

GetFile ==
  \E accept \in AcceptsFor(1, ParseCase(image, _parse_annotations(anno_file, image))) :
    /\ _get(1, ParseCase(image, _parse_annotations(anno_file, image)), accept)
    /\ UNCHANGED <<aux_vars, parser_vars, extractor_vars, it, yielded>>

NextParse == Parse \/ GetFile

SpecParse == InitParse /\ [][NextParse]_vars

\* ------------------------------------------------ the Subset under its callers
Init ==
  /\ ParserIdle /\ ExtractorIdle /\ NoReports /\ AuxIdle
  /\ keys \in InsertionOrders
  /\ items = [i \in Ids |-> IF IndexOf(keys, i) # 0 THEN Placeholder ELSE Missing]
  /\ od_state = 0
  /\ it = NoIter /\ yielded = <<>> /\ ret = NoRet

\* A caller fetches one id directly.
Get ==
  \E item_id \in Ids : \E c \in CasesFor(item_id) : \E accept \in AcceptsFor(item_id, c) :
    /\ _get(item_id, c, accept)
    /\ UNCHANGED <<aux_vars, parser_vars, extractor_vars, it, yielded>>

\* iter(subset) and the start of `for item_id in self.items`: the OrderedDict
\* iterator remembers the first key, the change counter and the size.
IterStart ==
  /\ it.status # "running"
  /\ it' = [status |-> "running",
            current |-> IF keys = <<>> THEN 0 ELSE keys[1],
            state |-> od_state, size |-> Len(keys)]
  /\ yielded' = <<>>
  /\ UNCHANGED <<aux_vars, parser_vars, extractor_vars, items, keys, od_state, ret, parse_calls, item_errors,
                 annotation_errors>>

\* next() with no key left: StopIteration, the pass is complete.
IterStop ==
  /\ it.status = "running" /\ it.current = 0
  /\ it' = [it EXCEPT !.status = "done"]
  /\ UNCHANGED <<aux_vars, parser_vars, extractor_vars, items, keys, od_state, yielded, ret,
                 parse_calls, item_errors, annotation_errors>>

\* The OrderedDict iterator's check for changes made since it was created.
Mutated == od_state # it.state \/ Len(keys) # it.size

\* next() after a key was removed: RuntimeError("OrderedDict mutated during
\* iteration") leaves the generator and reaches the caller.
IterRaise ==
  /\ it.status = "running" /\ it.current # 0 /\ Mutated
  /\ it' = [it EXCEPT !.status = "raised"]
  /\ UNCHANGED <<aux_vars, parser_vars, extractor_vars, items, keys, od_state, yielded, ret,
                 parse_calls, item_errors, annotation_errors>>

\* The key after k in the insertion order (0: k was the last).
NextKey(ks, k) == IF IndexOf(ks, k) < Len(ks) THEN ks[IndexOf(ks, k) + 1] ELSE 0

\* One round of the loop: take the current key, advance, call _get, yield the
\* item unless it is None.
IterBody ==
  /\ it.status = "running" /\ it.current # 0 /\ ~Mutated
  /\ \E c \in CasesFor(it.current) : \E accept \in AcceptsFor(it.current, c) :
       _get(it.current, c, accept)
  /\ it' = [it EXCEPT !.current = NextKey(keys, it.current)]
  /\ yielded' = IF ret'.value.kind = "item" THEN Append(yielded, it.current)
                ELSE yielded
  /\ UNCHANGED <<aux_vars, parser_vars, extractor_vars>>

Next == Get \/ IterStart \/ IterStop \/ IterRaise \/ IterBody

Spec == Init /\ [][Next]_vars

\* The Subset driven by iteration alone: no caller fetches an id directly.
NextSubsetIter == IterStart \/ IterStop \/ IterRaise \/ IterBody

SpecSubsetIter == Init /\ [][NextSubsetIter]_vars

\* ------------------------------------------- the extractor's own iteration
\* A url is a path: its directory and the base name of its file (the
\* extension plays no role below).
Dirs == {"p", "q"}
Urls == [dir : Dirs, stem : Ids]

\* _get_fname(fpath): the base name, without directory and extension.
_get_fname(fpath) == fpath.stem

\* The annotation files met on disk by the extractor's passes.
SampleFiles ==
  { Unreadable,
    [readable |-> TRUE, raw |-> << <<>> >>],
    [readable |-> TRUE, raw |-> << <<"0">> \o Corners >>],
    [readable |-> TRUE, raw |-> << <<"0">> \o SubSeq(Corners, 1, 7), <<"1">> \o Corners >>] }

Range(s) == { s[i] : i \in 1..Len(s) }

\* Mutant of ImageLookup: a missing base name is looked up without raising.
ImageLookup_Default(fname) == "none"

\* self._img_files[fname]: KeyError for a base name the index does not hold.
ImageLookup(fname) == IF img_files[fname] = "absent" THEN "KeyError" ELSE "none"

\* The try block of one round of the loop over urls: exc is the exception
\* caught by `except Exception` ("none": the item is yielded), out the result
\* of the parser when it was called.
Round(url) ==
  IF ImageLookup(_get_fname(url)) # "none"
  THEN [exc |-> ImageLookup(_get_fname(url)), out |-> NotCalled]
  ELSE LET out == _parse_annotations(disk[url], img_files[_get_fname(url)]) IN
       [exc |-> out.exc, out |-> out]

InitIter ==
  /\ ParserIdle /\ SubsetIdle /\ NoReports /\ AuxIdle
  /\ urls \in SeqsUpTo(Urls, MaxUrls) \ {<<>>}
  /\ img_files \in [Ids -> {"absent", "decodable", "undecodable"}]
  /\ disk \in [Range(urls) -> SampleFiles]
  /\ epos = 0 /\ epass = 0 /\ eyield = <<>> /\ elast = NoRound
  /\ visits = [i \in Ids |-> 0]

\* iter(extractor): a new pass over self._urls from the top.
EIterStart ==
  /\ epos = 0 /\ epass < MaxPasses
  /\ epass' = epass + 1 /\ epos' = 1 /\ eyield' = <<>> /\ elast' = NoRound
  /\ UNCHANGED <<aux_vars, parser_vars, subset_vars, urls, img_files, disk, visits>>

\* One round of `for url in self._urls`.
EIterStep ==
  /\ epos \in 1..Len(urls)
  /\ LET url == urls[epos]
         fname == _get_fname(url)
         r == Round(url)
     IN /\ visits' = [visits EXCEPT ![fname] = @ + 1]
        /\ parse_calls' = [parse_calls EXCEPT
                             ![fname] = IF r.out = NotCalled THEN @ ELSE @ + 1]
        /\ annotation_errors' =
             [annotation_errors EXCEPT ![fname] = @ + Len(r.out.reports)]
        /\ IF r.exc = "none"
           THEN /\ eyield' = Append(eyield, [id |-> fname,
                                             annotations |-> r.out.annotations])
                /\ UNCHANGED item_errors
           ELSE /\ item_errors' = [item_errors EXCEPT ![fname] = @ + 1]
                /\ UNCHANGED eyield
        /\ elast' = [url |-> url, fname |-> fname, image |-> img_files[fname],
                     file |-> disk[url], exc |-> r.exc,
                     errors_before |-> item_errors[fname],
                     yielded_before |-> Len(eyield)]
  /\ epos' = epos + 1
  /\ UNCHANGED <<aux_vars, parser_vars, items, keys, od_state, it, yielded, ret,
                 urls, img_files, disk, epass>>

\* The url list is exhausted: the pass is complete.
EIterStop ==
  /\ epos = Len(urls) + 1
  /\ epos' = 0
  /\ UNCHANGED <<aux_vars, parser_vars, subset_vars, urls, img_files, disk, epass, eyield,
                 elast, visits>>

NextIter == EIterStart \/ EIterStep \/ EIterStop

SpecIter == InitIter /\ [][NextIter]_vars

\* ------------------------------------------------------- names from paths
\* Longest directory part of a path, in segments.
MaxSegs == 3

\* A path with "/" separators: relative or absolute, its directory segments,
\* the base name of its file and the extension. "data" is the default base
\* folder, "train_obj" a subset folder.
SegNames == {"data", "train_obj", "a"}
Paths == [root : {"rel", "abs"}, dir : SeqsUpTo(SegNames, MaxSegs),
          stem : Ids, ext : {"", ".jpg"}]

\* localize_path(path): a leading "data/" is removed.
localize_path(p) ==
  IF p.root = "rel" /\ p.dir # <<>> /\ p.dir[1] = "data"
  THEN [p EXCEPT !.dir = Tail(p.dir)] ELSE p

\* split_path(path): the components of the path, "/" first for an absolute one.
split_path(p) ==
  (IF p.root = "abs" THEN <<"/">> ELSE <<>>) \o p.dir \o <<"file">>

\* osp.splitext(path)[0]: the path without the extension of its last component.
SplitExt(p) == [abs |-> p.root = "abs", dir |-> p.dir, stem |-> p.stem]

\* name_from_path(path): for a relative path of more than one component the
\* first component is dropped; the extension goes.
name_from_path(p) ==
  LET q == localize_path(p) IN
  IF 1 < Len(split_path(q)) /\ q.root # "abs"
  THEN SplitExt([q EXCEPT !.dir = Tail(q.dir)])
  ELSE SplitExt(q)

\* DatasetItem(id=fname, ...) of __iter__: the id given to the item of a url.
ItemIdOf(url) == [abs |-> FALSE, dir |-> <<>>, stem |-> _get_fname(url)]

InitNames ==
  /\ ParserIdle /\ SubsetIdle /\ NoReports /\ ExtractorIdle /\ Constructed /\ GeomIdle
  /\ path \in Paths
  /\ named = NotNamed

\* name_from_path is called on the path.
NameFromPath ==
  /\ named.name = NoName
  /\ named' = [named EXCEPT !.name = name_from_path(path)]
  /\ UNCHANGED <<parser_vars, subset_vars, extractor_vars, path, ctor_vars, geom_vars>>

\* The extractor's loop reaches the path as a url and names its item.
NameItem ==
  /\ named.id = 0
  /\ named' = [named EXCEPT !.id = ItemIdOf(path).stem]
  /\ UNCHANGED <<parser_vars, subset_vars, extractor_vars, path, ctor_vars, geom_vars>>

NextNames == NameFromPath \/ NameItem

SpecNames == InitNames /\ [][NextNames]_vars

\* ------------------------------------------------------------ construction
\* Longest result of the scan for image files under the root path.
MaxScan == 2

\* An image file found by find_files(rootpath, IMAGE_EXTENSIONS, ...): the
\* subset extract_subset_name_from_parent attributes it to, its directory and
\* its base name.
Subsets == {"train", "val"}
ScanFiles == [subset : Subsets, dir : Dirs, stem : Ids]

\* Mutant of IndexLoop: a base name already in the index keeps its file.
RECURSIVE IndexLoop_FirstWins(_, _, _, _)
IndexLoop_FirstWins(files, subset, k, acc) ==
  IF k > Len(files) THEN acc
  ELSE IF files[k].subset = subset /\ acc[_get_fname(files[k])] = NoFile
  THEN IndexLoop_FirstWins(files, subset, k + 1,
                           [acc EXCEPT ![_get_fname(files[k])] = files[k]])
  ELSE IndexLoop_FirstWins(files, subset, k + 1, acc)

\* The dict comprehension of _load_img_files: the files are taken in scan
\* order, those of other subsets are skipped, and a key met again is
\* overwritten.
RECURSIVE IndexLoop(_, _, _, _)
IndexLoop(files, subset, k, acc) ==
  IF k > Len(files) THEN acc
  ELSE IF files[k].subset = subset
  THEN IndexLoop(files, subset, k + 1, [acc EXCEPT ![_get_fname(files[k])] = files[k]])
  ELSE IndexLoop(files, subset, k + 1, acc)

\* _load_img_files(rootpath), for the files the scan finds and self._subset.
_load_img_files(files, subset) == IndexLoop(files, subset, 1, [i \in Ids |-> NoFile])

\* Label names a category file can list.
LabelNames == {"a", "b", "c"}
Distinct(s) == \A i, j \in 1..Len(s) : i # j => s[i] # s[j]
NameLists == { s \in SeqsUpTo(LabelNames, Cardinality(LabelNames)) : Distinct(s) }

\* A `names` mapping, as the document lists it: keys 0..n-1 in ascending or
\* in descending order.
Entries(l, descending) ==
  [k \in 1..Len(l) |-> [key |-> IF descending THEN Len(l) - k ELSE k - 1, name |-> l[k]]]

\* What _load_categories finds at names_path:
\*   "meta"       - a dataset meta file stands next to it and lists `names`
\*   "unreadable" - open() fails
\*   "invalid"    - yaml.safe_load fails
\*   "nonames"    - the document is a mapping without the key `names`
\*   "list", "dict", "scalar" - the shape of loaded["names"]
CategoryFiles ==
  { [kind |-> k, names |-> <<>>] : k \in {"unreadable", "invalid", "nonames", "scalar"} }
  \cup { [kind |-> k, names |-> l] : k \in {"meta", "list"}, l \in NameLists }
  \cup { [kind |-> "dict", names |-> Entries(l, d)] : l \in NameLists, d \in BOOLEAN }

\* Mutant of AddAll: each name is put in front of those added before.
RECURSIVE AddAll_Prepend(_, _, _)
AddAll_Prepend(label_names, k, cats) ==
  IF k > Len(label_names) THEN cats
  ELSE AddAll_Prepend(label_names, k + 1, <<label_names[k]>> \o cats)

RECURSIVE AddAll(_, _, _)
\* for label_name in label_names: label_categories.add(label_name)
AddAll(label_names, k, cats) ==
  IF k > Len(label_names) THEN cats
  ELSE AddAll(label_names, k + 1, Append(cats, label_names[k]))

\* _load_categories(names_path): exc is the exception that leaves the
\* function ("none": it returns the LabelCategories holding names, a label's
\* id being its position in names, from 0).
_load_categories(f) ==
  CASE f.kind = "meta" -> [exc |-> "none", names |-> f.names]
    [] f.kind = "unreadable" -> [exc |-> "OSError", names |-> <<>>]
    [] f.kind = "invalid" -> [exc |-> "YAMLError", names |-> <<>>]
    [] f.kind = "nonames" -> [exc |-> "KeyError", names |-> <<>>]
    [] f.kind = "list" -> [exc |-> "none", names |-> AddAll(f.names, 1, <<>>)]
    [] f.kind = "dict" ->
         [exc |-> "none",
          names |-> AddAll([k \in 1..Len(f.names) |-> f.names[k].name], 1, <<>>)]
    [] OTHER -> [exc |-> "DatasetImportError", names |-> <<>>]

\* The arguments of __init__ and the disk it meets.
UrlArgs ==
  { [given |-> FALSE, list |-> <<>>] }
  \cup { [given |-> TRUE, list |-> l] : l \in SeqsUpTo(Urls, 1) }
SampleScans ==
  { <<>>,
    <<[subset |-> "train", dir |-> "p", stem |-> 1]>>,
    <<[subset |-> "val", dir |-> "p", stem |-> 1],
      [subset |-> "train", dir |-> "q", stem |-> 1]>> }
SampleCategoryFiles ==
  { f \in CategoryFiles : f.names = <<>> \/ Len(f.names) = Cardinality(LabelNames) - 1 }

\* Every annotation file the constructed extractor may open: one valid line.
OneBoxFile == [readable |-> TRUE, raw |-> << <<"0">> \o Corners >>]

Unconstructed ==
  /\ ParserIdle /\ SubsetIdle /\ NoReports
  /\ path = NoPath /\ named = NotNamed /\ GeomIdle
  /\ img_files = [i \in Ids |-> "absent"]
  /\ disk = [u \in Urls |-> OneBoxFile]
  /\ epos = 0 /\ epass = 0 /\ eyield = <<>> /\ elast = NoRound
  /\ visits = [i \in Ids |-> 0]
  /\ cexc = "none"
  /\ index = [i \in Ids |-> NoFile]
  /\ categories = [set |-> FALSE, names |-> <<>>]

\* YoloOrientedboxExtractor(config_path, image_info, urls, subset=...) is called.
InitCtor ==
  /\ Unconstructed /\ urls = <<>>
  /\ cpc = "isdir"
  /\ cargs \in [isdir : BOOLEAN, urls : UrlArgs, info : {"absent", "file", "bad"},
                subset : {"train"}, scanned : SampleScans, names : SampleCategoryFiles]

\* raise: the exception leaves __init__, no extractor object is bound.
CtorRaise(e) ==
  /\ cpc' = "raised" /\ cexc' = e
  /\ UNCHANGED <<parser_vars, subset_vars, extractor_vars, names_vars, geom_vars,
                 cargs, index, categories>>

CtorGoto(next) ==
  /\ cpc' = next
  /\ UNCHANGED <<parser_vars, subset_vars, extractor_vars, names_vars, geom_vars,
                 cargs, cexc, index, categories>>

\* Mutant of CtorCheckDir: the root path is not looked at.
CtorCheckDir_Skip == cpc = "isdir" /\ CtorGoto("urls")

\* if not osp.isdir(config_path): raise DatasetImportError
CtorCheckDir ==
  /\ cpc = "isdir"
  /\ IF ~cargs.isdir THEN CtorRaise("DatasetImportError") ELSE CtorGoto("urls")

\* if not urls: raise DatasetImportError
CtorCheckUrls ==
  /\ cpc = "urls"
  /\ IF ~cargs.urls.given \/ cargs.urls.list = <<>>
     THEN CtorRaise("DatasetImportError") ELSE CtorGoto("image_info")

\* self._image_info = self.parse_image_info(rootpath, image_info): without an
\* image info file it is {}; load_image_meta_file raises on a malformed one.
CtorImageInfo ==
  /\ cpc = "image_info"
  /\ IF cargs.info = "bad" THEN CtorRaise("Exception") ELSE CtorGoto("img_files")

\* self._urls = urls; self._img_files = self._load_img_files(rootpath)
CtorLoadImgFiles ==
  /\ cpc = "img_files"
  /\ urls' = cargs.urls.list
  /\ index' = _load_img_files(cargs.scanned, cargs.subset)
  /\ img_files' = [i \in Ids |-> IF index'[i] = NoFile THEN "absent" ELSE "decodable"]
  /\ cpc' = "categories"
  /\ UNCHANGED <<parser_vars, subset_vars, names_vars, geom_vars, disk, epos, epass,
                 eyield, elast, visits, cargs, cexc, categories>>

\* self._categories = {AnnotationType.label: self._load_categories(...)}
CtorLoadCategories ==
  /\ cpc = "categories"
  /\ LET r == _load_categories(cargs.names) IN
       IF r.exc # "none" THEN CtorRaise(r.exc)
       ELSE /\ categories' = [set |-> TRUE, names |-> r.names]
            /\ cpc' = "done"
            /\ UNCHANGED <<parser_vars, subset_vars, extractor_vars, names_vars,
                           geom_vars, cargs, cexc, index>>

\* The constructed extractor is iterated.
CtorUse == cpc = "done" /\ NextIter

NextCtor ==
  \/ CtorCheckDir \/ CtorCheckUrls \/ CtorImageInfo \/ CtorLoadImgFiles
  \/ CtorLoadCategories \/ CtorUse

SpecCtor == InitCtor /\ [][NextCtor]_vars

\* _load_img_files alone, on every scan result.
InitIndex ==
  /\ Unconstructed /\ urls = <<>>
  /\ cpc = "img_files"
  /\ cargs \in [isdir : {TRUE}, urls : { u \in UrlArgs : u.list # <<>> },
                info : {"absent"}, subset : Subsets,
                scanned : SeqsUpTo(ScanFiles, MaxScan),
                names : { [kind |-> "list", names |-> <<>>] }]

SpecIndex == InitIndex /\ [][CtorLoadImgFiles]_vars

\* _load_categories alone, on every category file.
InitCategories ==
  /\ Unconstructed
  /\ cpc = "categories"
  /\ cargs \in [isdir : {TRUE}, urls : { u \in UrlArgs : u.list # <<>> },
                info : {"absent"}, subset : {"train"}, scanned : { <<>> },
                names : CategoryFiles]
  /\ urls = cargs.urls.list

SpecCategories == InitCategories /\ [][CtorLoadCategories]_vars

\* ------------------------------------------------------- one box's geometry
\* Normalized coordinates are multiples of 1/4 (exact as floats): q stands
\* for q/4. A line's corners are x1, y1, ..., x4, y4; the lines here describe
\* axis-parallel rectangles, starting at any corner.
Quarters == 0..4
RectCorners(xl, yl, xh, yh) == <<xl, yl, xh, yl, xh, yh, xl, yh>>
Rotate(s, n) == [k \in 1..Len(s) |-> s[((k - 1 + 2 * n) % Len(s)) + 1]]
CornerLines ==
  { s \in { Rotate(RectCorners(xl, yl, xh, yh), n) :
              xl \in Quarters, yl \in Quarters, xh \in Quarters, yh \in Quarters,
              n \in 0..3 } :
      s[1] # s[5] /\ s[2] # s[6] }

\* Pixel sizes of the images.
Dims == {50, 100, 200}

\* image.size of an image h pixels high and w pixels wide: (height, width).
SizeOf(im) == <<im.h, im.w>>

\* cnt.astype(np.int32) of a non-negative q/4 * d: the fraction is cut off.
ToInt32(q, d) == (q * d) \div 4

\* Mutant of ScaleCorners: image.size is unpacked as (width, height).
ScaleCorners_Swapped(line, size) ==
  LET image_width == size[1]
      image_height == size[2]
  IN [k \in 1..4 |-> [x |-> ToInt32(line[2 * k - 1], image_width),
                      y |-> ToInt32(line[2 * k], image_height)]]

\* image_height, image_width = image.size; the array handed to
\* xyxyxyxy2xywhr: [x_k * image_width, y_k * image_height], as int32.
ScaleCorners(line, size) ==
  LET image_height == size[1]
      image_width == size[2]
  IN [k \in 1..4 |-> [x |-> ToInt32(line[2 * k - 1], image_width),
                      y |-> ToInt32(line[2 * k], image_height)]]

MinOf(S) == CHOOSE x \in S : \A y \in S : x <= y
MaxOf(S) == CHOOSE x \in S : \A y \in S : y <= x

\* The angle cv2.minAreaRect reports for an axis-parallel rectangle depends
\* on the convention of the OpenCV build: 0 with (w, h) the x and y extents,
\* or 90 or -90 with the two extents exchanged.
Angles == {-90, 0, 90}

\* cv2.minAreaRect(cnt) for the corners of an axis-parallel rectangle: the
\* centre (doubled, to stay integral), the extents and the angle.
minAreaRect(cnt, angle) ==
  LET xs == { cnt[k].x : k \in 1..4 }
      ys == { cnt[k].y : k \in 1..4 }
      dx == MaxOf(xs) - MinOf(xs)
      dy == MaxOf(ys) - MinOf(ys)
  IN [x2 |-> MinOf(xs) + MaxOf(xs), y2 |-> MinOf(ys) + MaxOf(ys),
      w |-> IF angle = 0 THEN dx ELSE dy, h |-> IF angle = 0 THEN dy ELSE dx,
      angle |-> angle]

InitGeom ==
  /\ ParserIdle /\ SubsetIdle /\ NoReports /\ ExtractorIdle /\ Constructed
  /\ path = NoPath /\ named = NotNamed
  /\ gsize \in [h : Dims, w : Dims]
  /\ gline \in CornerLines
  /\ gbox = NoBox

\* (x, y), (w, h), r = xyxyxyxy2xywhr(...); Bbox(x, y, w, h, ...,
\* attributes={"angle": r}) for one line of an image.
ComputeBox ==
  /\ gbox = NoBox
  /\ \E angle \in Angles :
       gbox' = minAreaRect(ScaleCorners(gline, SizeOf(gsize)), angle)
  /\ UNCHANGED <<parser_vars, subset_vars, extractor_vars, names_vars, ctor_vars,
                 gsize, gline>>

SpecGeom == InitGeom /\ [][ComputeBox]_vars

\* ================================================================ claims
\* ---- vocabulary of the claims about one annotation file (SpecParse)
\* The lines of the alphabet that are a well-formed box description.
ValidLines == { <<"0">> \o Corners, <<"1">> \o Corners }
\* Non-blank lines whose token count is not 9.
IsWrongCount(l) == l # <<>> /\ Len(l) # 9
\* Lines of 9 tokens whose integer label id is no index into the categories.
IsUndeclared(l) ==
  Len(l) = 9 /\ l[1] \in IntTokens
  /\ ~(0 <= IntOf(l[1]) /\ IntOf(l[1]) < Len(label_categories))
\* 1-based positions, in the raw file, of the valid lines.
ValidPos == { i \in 1..Len(anno_file.raw) : anno_file.raw[i] \in ValidLines }
\* The k-th smallest element of a set of numbers.
Kth(S, k) == CHOOSE x \in S : Cardinality({ y \in S : y < x }) = k - 1
\* Number of non-blank lines before raw position i.
NonBlankBefore(i) == Cardinality({ j \in 1..(i - 1) : anno_file.raw[j] # <<>> })
\* The label ids of the valid lines, in file order.
ValidLabels == [k \in 1..Cardinality(ValidPos) |-> IntOf(anno_file.raw[Kth(ValidPos, k)][1])]
LabelsOf(anns) == [k \in 1..Len(anns) |-> anns[k].label]
\* The parser was called and returned.
Parsed == parsed.exc = "none"
\* _get was called on the unresolved entry 1 (its first fetch).
Fetched == ret.id = 1 /\ ret.before = Placeholder
SizeObtainable == ImageSize(image) # None

\* C3 (as claimed): get(id) on an Unresolved entry whose annotation file is
\* readable and whose image size is obtainable makes the entry Resolved and
\* returns an item holding exactly the boxes the parser kept, whatever their
\* number; line-level errors are reported as annotation errors and never evict.
C3_ResolvesWithSurvivingBoxes ==
  (Fetched /\ anno_file.readable /\ SizeObtainable) =>
    /\ ret.exc = "none"
    /\ ret.value = DatasetItem(_parse_annotations(anno_file, image).annotations)
    /\ items[1] = ret.value
    /\ item_errors[1] = 0
    /\ annotation_errors[1] = Len(_parse_annotations(anno_file, image).reports)

\* C5, parser part: with a wrong-count line in the file, the parser still
\* returns one box per valid line, in file order.
C5_ParserIsolation ==
  (Parsed /\ \E i \in 1..Len(anno_file.raw) : IsWrongCount(anno_file.raw[i])) =>
    /\ LabelsOf(parsed.annotations) = ValidLabels
    /\ \A r \in Range(parsed.reports) : IsWrongCount(NonBlank(anno_file.raw)[r.idx + 1])
         => r.error = "InvalidAnnotationError"

\* C5 (as claimed): a non-blank line whose token count is not 9 is rejected
\* without affecting its siblings: every valid line still yields its box, and
\* the item is still produced when at least one line succeeds.
C5_WrongCountIsolated ==
  /\ C5_ParserIsolation
  /\ (Fetched /\ anno_file.readable /\ SizeObtainable /\ ValidPos # {}
      /\ \E i \in 1..Len(anno_file.raw) : IsWrongCount(anno_file.raw[i])) =>
       /\ ret.value.kind = "item"
       /\ LabelsOf(ret.value.annotations) = ValidLabels

\* C6, parser part: each undeclared-label line gets exactly one annotation
\* report (UndeclaredLabelError) and no box; the valid lines keep their boxes;
\* every label id of a returned box is a valid index.
C6_ParserSkipsUndeclared ==
  Parsed =>
    /\ \A i \in 1..Len(anno_file.raw) : IsUndeclared(anno_file.raw[i]) =>
         /\ Cardinality({ k \in 1..Len(parsed.reports) :
                            parsed.reports[k].idx = NonBlankBefore(i) }) = 1
         /\ \A r \in Range(parsed.reports) :
              r.idx = NonBlankBefore(i) => r.error = "UndeclaredLabelError"
         /\ \A b \in Range(parsed.annotations) : b.id # NonBlankBefore(i)
    /\ LabelsOf(parsed.annotations) = ValidLabels
    /\ \A b \in Range(parsed.annotations) :
         b.label \in 0..(Len(label_categories) - 1)

\* C6 (as claimed): a line whose label id is no valid index is skipped with
\* one annotation error and no box, the remaining valid lines still yield
\* their boxes and the item still materializes; every label id of an emitted
\* box is a valid index.
C6_UndeclaredLabelSkipped ==
  /\ C6_ParserSkipsUndeclared
  /\ (Fetched /\ anno_file.readable /\ SizeObtainable
      /\ \E i \in 1..Len(anno_file.raw) : IsUndeclared(anno_file.raw[i])) =>
       /\ ret.value.kind = "item"
       /\ LabelsOf(ret.value.annotations) = ValidLabels

\* C9 (as claimed): the ordinal (id and group) of every returned box is the
\* 0-based position of its line in the annotation file, blank lines counted.
C9_OrdinalIsFilePosition ==
  Parsed => \A k \in 1..Len(parsed.annotations) :
    /\ k <= Cardinality(ValidPos)
    /\ parsed.annotations[k].id = Kth(ValidPos, k) - 1
    /\ parsed.annotations[k].group = Kth(ValidPos, k) - 1

\* C9 (amended): the ordinal (id and group) of every returned box is the
\* 0-based position of its line among the non-blank lines of the file
\* (rejected lines counted, blank lines not); ordinals strictly increase.
C9_OrdinalIsNonBlankPosition ==
  Parsed =>
    /\ Len(parsed.annotations) = Cardinality(ValidPos)
    /\ \A k \in 1..Len(parsed.annotations) :
         /\ parsed.annotations[k].id = NonBlankBefore(Kth(ValidPos, k))
         /\ parsed.annotations[k].group = parsed.annotations[k].id
    /\ \A k \in 1..(Len(parsed.annotations) - 1) :
         parsed.annotations[k].id < parsed.annotations[k + 1].id

\* C9 witness: a box was returned for a line that follows a rejected line.
C9_Witness ==
  /\ Parsed /\ Len(parsed.reports) > 0
  /\ \E b \in Range(parsed.annotations) : \E r \in Range(parsed.reports) :
       r.idx < b.id

\* C10: image.size is accessed only after the file was read and found to have
\* a non-blank line; a file without one gives an empty list with no access;
\* whenever a box is returned the size was read, and was known.
C10_SizeReadLate ==
  parsed # NotCalled =>
    /\ parsed.size_read =>
         anno_file.readable /\ \E i \in 1..Len(anno_file.raw) : anno_file.raw[i] # <<>>
    /\ (anno_file.readable /\ \A i \in 1..Len(anno_file.raw) : anno_file.raw[i] = <<>>)
         => (parsed.exc = "none" /\ parsed.annotations = <<>> /\ ~parsed.size_read)
    /\ parsed.annotations # <<>> => (parsed.size_read /\ SizeObtainable)

\* C10 witness: a file of blank lines only was parsed for an image that could
\* not have been decoded, and the parser returned without touching the image.
C10_Witness ==
  /\ Parsed /\ anno_file.readable /\ anno_file.raw # <<>>
  /\ image = "undecodable" /\ ~parsed.size_read

\* ---- claims about the Subset under its callers (Spec)
\* C1: once _get has returned a materialized item for an id, every later
\* _get of that id returns that same cached item, the entry never changes
\* again, and the parser is called at most once per id.
C1_CachedItemIsStable ==
  [][\A i \in Ids :
       /\ parse_calls'[i] <= 1
       /\ items[i].kind = "item" =>
            /\ items'[i] = items[i]
            /\ parse_calls'[i] = parse_calls[i]
            /\ (ret' # ret /\ ret'.id = i) =>
                 (ret'.exc = "none" /\ ret'.value = items[i])
       /\ (ret' # ret /\ ret'.id = i /\ ret'.value.kind = "item") =>
            items'[i] = ret'.value
    ]_vars

\* C1 witness: a _get found its entry already materialized and returned it.
C1_Witness ==
  /\ ret.id # 0 /\ ret.before.kind = "item" /\ ret.value = ret.before
  /\ parse_calls[ret.id] = 1

\* C2 (as claimed): once an entry was evicted, every later get(id) returns
\* nothing without raising, parsing or reporting, and the entry stays absent.
C2_AbsentGetReturnsNothing ==
  /\ \A i \in Ids : item_errors[i] > 0 => items[i] = Missing
  /\ (ret.id # 0 /\ ret.before = Missing /\ item_errors[ret.id] > 0) =>
       /\ ret.exc = "none" /\ ret.value = NoneValue /\ ret.case = NoCase
       /\ item_errors[ret.id] = 1 /\ parse_calls[ret.id] = 1

\* Structural failure of the annotation file / image on disk (SpecParse).
Structural ==
  \/ ~anno_file.readable
  \/ ~SizeObtainable /\ \E i \in 1..Len(anno_file.raw) : anno_file.raw[i] # <<>>

\* C4: when resolving an unresolved entry hits a structural failure, _get
\* returns None, exactly one item error and no annotation error is reported
\* for the id, and the entry has left the Subset for good - also after any
\* number of further calls.
C4_StructuralFailureEvicts ==
  (ret.id = 1 /\ Structural) =>
    /\ ret.value = NoneValue
    /\ Fetched => (ret.exc = "none" /\ ret.caught \in {"OSError", "DatasetImportError"})
    /\ items[1] = Missing /\ keys = <<>>
    /\ item_errors[1] = 1 /\ annotation_errors[1] = 0 /\ parse_calls[1] = 1

\* C4 witness: the entry was evicted because its image could not be decoded
\* while its annotation file had a line.
C4_Witness ==
  /\ Fetched /\ anno_file.readable /\ ~SizeObtainable
  /\ ret.caught = "DatasetImportError" /\ items[1] = Missing

\* C7 (as claimed): iterating the Subset never raises and yields every item
\* that resolved, wherever evicted entries stand in the insertion order.
C7_IterationNeverRaises ==
  /\ it.status # "raised"
  /\ it.status = "done" =>
       \A i \in Range(keys) : items[i].kind = "item" => i \in Range(yielded)

\* ---- claims about the extractor's own iteration (SpecIter)
Yielded(f) == \E k \in 1..Len(eyield) : eyield[k].id = f
BlankOnly(file) == file.readable /\ \A i \in 1..Len(file.raw) : file.raw[i] = <<>>

RejectedPos ==
  { i \in 1..Len(anno_file.raw) :
      anno_file.raw[i] # <<>> /\ LineError(anno_file.raw[i]) # "none" }

\* C11 (as claimed): every dropped unit is reported exactly once at its own
\* level. After any number of _get calls on an entry: each rejected line has
\* one annotation report and causes no item report; the item is dropped
\* exactly when its file or image fails as a whole, with one item report; a
\* line that was not rejected has its box in the item.
C11_EveryDropReportedOnce ==
  ret.id = 1 =>
    /\ annotation_errors[1] = IF Structural THEN 0 ELSE Cardinality(RejectedPos)
    /\ item_errors[1] = IF Structural THEN 1 ELSE 0
    /\ (items[1] = Missing) <=> Structural
    /\ items[1].kind = "item" => LabelsOf(items[1].annotations) = ValidLabels

\* ---- identifiers and passes of the extractor's iteration (SpecIter)
\* C12 (as claimed): within one pass over the url list no two yielded items
\* have the same identifier, also when two urls share their base name or
\* the same url is listed twice.
C12_YieldedIdsUnique ==
  \A j, k \in 1..Len(eyield) : j # k => eyield[j].id # eyield[k].id

\* C14 (as claimed): restarting the iteration is memoized - no round of a
\* second pass over the url list calls the parser or reports anything to the
\* ErrorSink.
C14_SecondPassIsMemoized ==
  [][epass >= 2 =>
       /\ parse_calls' = parse_calls
       /\ item_errors' = item_errors
       /\ annotation_errors' = annotation_errors
    ]_vars

\* ---- item identifiers (SpecNames)
\* The relative path left once a leading "data/" is removed.
RelSegs(p) == IF p.dir # <<>> /\ p.dir[1] = "data" THEN Tail(p.dir) ELSE p.dir

\* C13, name_from_path: for a relative path the name is the path without its
\* extension and, when it has more than one segment, without its first one.
C13_NameFromPath ==
  (named.name # NoName /\ path.root = "rel") =>
    /\ named.name.stem = path.stem /\ ~named.name.abs
    /\ named.name.dir = IF RelSegs(path) = <<>> THEN <<>> ELSE Tail(RelSegs(path))

\* C13 (as claimed): name_from_path computes that name, and the identifier
\* the extractor gives the item of a relative url is the name name_from_path
\* computes for that url.
C13_ItemIdIsNameFromPath ==
  /\ C13_NameFromPath
  /\ (named.id # 0 /\ path.root = "rel") =>
       [abs |-> FALSE, dir |-> <<>>, stem |-> named.id] = name_from_path(path)

\* ---- categories (SpecCategories)
\* The id LabelCategories gives a name: its position, counted from 0.
LabelId(cats, name) == (CHOOSE i \in 1..Len(cats) : cats[i] = name) - 1

\* C15: a category file whose `names` field is a list of distinct names gives
\* a LabelCategories holding exactly these names, the id of each being its
\* position in the list; a `names` field that is neither a list nor a mapping
\* raises DatasetImportError and no LabelCategories is stored.
C15_ListPositionIsLabelId ==
  cpc # "categories" =>
    /\ cargs.names.kind = "list" =>
         /\ cpc = "done" /\ cexc = "none" /\ categories.set
         /\ Len(categories.names) = Len(cargs.names.names)
         /\ \A k \in 1..Len(cargs.names.names) :
              LabelId(categories.names, cargs.names.names[k]) = k - 1
    /\ cargs.names.kind = "scalar" =>
         /\ cpc = "raised" /\ cexc = "DatasetImportError"
         /\ ~categories.set /\ categories.names = <<>>

\* C15 witness: the list [b, a, c] was loaded and b, a, c have ids 0, 1, 2.
C15_Witness ==
  /\ cpc = "done" /\ cargs.names = [kind |-> "list", names |-> <<"b", "a", "c">>]
  /\ categories = [set |-> TRUE, names |-> <<"b", "a", "c">>]

\* ---- construction (SpecCtor)
Malformed(f) == f.kind \in {"unreadable", "invalid", "nonames", "scalar"}
NoUrls(u) == ~u.given \/ u.list = <<>>

\* C16: a root path that is no directory, a missing or empty url list and a
\* malformed category file each make __init__ raise (the first two as soon as
\* their check is passed, with DatasetImportError); __init__ completes only
\* when none of them holds; as long as it has not completed no pass is
\* started, no item is yielded and nothing is reported to the ErrorSink, and
\* once it has raised it stays so.
C16_StructuralErrorsHalt ==
  /\ (~cargs.isdir /\ cpc # "isdir") =>
       (cpc = "raised" /\ cexc = "DatasetImportError")
  /\ (cargs.isdir /\ NoUrls(cargs.urls) /\ cpc \notin {"isdir", "urls"}) =>
       (cpc = "raised" /\ cexc = "DatasetImportError")
  /\ (Malformed(cargs.names) /\ cpc \notin {"isdir", "urls", "image_info",
                                            "img_files", "categories"}) =>
       (cpc = "raised" /\ cexc # "none")
  /\ cpc = "done" =>
       (cargs.isdir /\ ~NoUrls(cargs.urls) /\ ~Malformed(cargs.names) /\ cexc = "none")
  /\ cpc # "done" =>
       /\ epass = 0 /\ epos = 0 /\ eyield = <<>>
       /\ NoReports
       /\ ~categories.set

\* C16 witness: __init__ got as far as the category file, found `names` to be
\* a scalar and raised, after the image index had been filled.
C16_Witness ==
  /\ cpc = "raised" /\ cexc = "DatasetImportError"
  /\ cargs.isdir /\ ~NoUrls(cargs.urls) /\ cargs.names.kind = "scalar"
  /\ \E i \in Ids : index[i] # NoFile

\* ---- the image index (SpecIndex)
\* Positions, in scan order, of the files of the requested subset named f.
Hits(f) ==
  { k \in 1..Len(cargs.scanned) :
      cargs.scanned[k].subset = cargs.subset /\ cargs.scanned[k].stem = f }
Last(S) == CHOOSE x \in S : \A y \in S : y <= x

\* C20: once _load_img_files has run, the index holds an entry for a base
\* name exactly when a scanned file of the requested subset has that base
\* name, the entry is the last such file in scan order, and no entry is a
\* file of another subset.
C20_IndexLastScannedWins ==
  cpc # "img_files" =>
    \A f \in Ids :
      /\ (index[f] # NoFile) <=> (Hits(f) # {})
      /\ Hits(f) # {} => index[f] = cargs.scanned[Last(Hits(f))]
      /\ index[f] # NoFile => index[f].subset = cargs.subset

\* C20 witness: two different files of the requested subset share base
\* name 1 and the index maps 1 to the one scanned second.
C20_Witness ==
  /\ cpc = "categories" /\ Len(cargs.scanned) = 2
  /\ cargs.scanned[1].subset = cargs.subset /\ cargs.scanned[2].subset = cargs.subset
  /\ cargs.scanned[1].stem = 1 /\ cargs.scanned[2].stem = 1
  /\ cargs.scanned[1] # cargs.scanned[2]
  /\ index[1] = cargs.scanned[2]

\* ---- the Subset's entries (Spec)
\* C18: every entry of the Subset is an unresolved filename or a materialized
\* item, the keys being exactly the ids that have one; and when a _get call
\* has returned, the entry of its id is materialized or absent, never still
\* the filename, and the value returned is that materialized item or None.
C18_ResolutionIsAtomic ==
  /\ \A i \in Ids :
       /\ items[i].kind \in {"str", "item", "missing"}
       /\ items[i].kind = "str" => items[i] = Placeholder
       /\ (items[i] # Missing) <=> (i \in Range(keys))
  /\ (ret.id # 0 /\ ret.exc = "none") =>
       /\ items[ret.id].kind \in {"item", "missing"}
       /\ ret.value.kind \in {"item", "None"}
       /\ ret.value.kind = "item" => items[ret.id] = ret.value
       /\ ret.value = NoneValue => items[ret.id] = Missing

\* C18 witness: the last _get turned a filename into an item and returned it,
\* while another entry has been evicted.
C18_Witness ==
  /\ ret.id # 0 /\ ret.before = Placeholder /\ ret.value.kind = "item"
  /\ items[ret.id] = ret.value
  /\ \E j \in Ids : j # ret.id /\ item_errors[j] = 1 /\ items[j] = Missing

\* a stands before b in the insertion order ks.
Before(ks, a, b) == IndexOf(ks, a) # 0 /\ IndexOf(ks, a) < IndexOf(ks, b)
InOrder(ids, ks) ==
  \A m, n \in 1..Len(ids) : m < n => Before(ks, ids[m], ids[n])

\* C19, the Subset part: a step that calls _get on an id changes no other
\* entry; an eviction (an item error was reported) removes that id alone
\* from the keys and len(Subset) drops by one, any other step leaves keys
\* and length as they are; the ids left keep their relative order; what a
\* pass of Subset iteration has yielded is in insertion order, and a pass
\* that reached its end has yielded exactly the entries that are left.
C19_EvictionDropsOneItem ==
  [][/\ \A j \in Ids : j # ret'.id => items'[j] = items[j]
     /\ IF item_errors' # item_errors
        THEN /\ item_errors' = [item_errors EXCEPT ![ret'.id] = @ + 1]
             /\ Range(keys') = Range(keys) \ {ret'.id}
             /\ Len(keys') = Len(keys) - 1
        ELSE keys' = keys
     /\ \A a, b \in Range(keys') : Before(keys', a, b) <=> Before(keys, a, b)
     /\ InOrder(yielded', keys')
     /\ it'.status = "done" => yielded' = keys'
    ]_vars

\* C19 (as claimed): an item error drops exactly one item - the Subset part
\* above, and a pass of Subset iteration that has ended has yielded, in
\* insertion order, every entry left in the Subset.
C19_IterationYieldsSurvivors ==
  /\ InOrder(yielded, keys)
  /\ it.status \in {"done", "raised"} => yielded = keys

\* ---- geometry of one box (SpecGeom)
\* The line and image of the example: corners (0.25, 0.25), (0.75, 0.25),
\* (0.75, 0.75), (0.25, 0.75) in an image of 100 x 100 pixels.
ExampleBox ==
  /\ gsize = [h |-> 100, w |-> 100]
  /\ gline = <<1, 1, 3, 1, 3, 3, 1, 3>>
  /\ gbox # NoBox
\* The pixel x (y) coordinates of the line's corners: the normalized ones
\* times the image's width (height), cut to integers.
PixelXs == { (gline[2 * k - 1] * gsize.w) \div 4 : k \in 1..4 }
PixelYs == { (gline[2 * k] * gsize.h) \div 4 : k \in 1..4 }
\* The box's centre and extents are those of the rectangle spanned by the
\* scaled corners, the extents in either order.
BoxOfScaledCorners ==
  /\ gbox.x2 = MinOf(PixelXs) + MaxOf(PixelXs)
  /\ gbox.y2 = MinOf(PixelYs) + MaxOf(PixelYs)
  /\ \/ gbox.w = MaxOf(PixelXs) - MinOf(PixelXs) /\ gbox.h = MaxOf(PixelYs) - MinOf(PixelYs)
     \/ gbox.w = MaxOf(PixelYs) - MinOf(PixelYs) /\ gbox.h = MaxOf(PixelXs) - MinOf(PixelXs)

====
